---------------------------- MODULE Spec2Model ----------------------------
(***************************************************************************)
(* A model of the SimpleCoin peer-to-peer ledger node (chain.py, main.py,   *)
(* network.py): the chain validator, the longest-chain resolver with its    *)
(* numeric tie-break, local mining, the connection handler and the          *)
(* periodic sync worker, as threads of a node sharing a chain list, a       *)
(* pending pool and a chain file.                                           *)
(*                                                                          *)
(* block.py (Block, hash_block, create_block, create_block_from_dict,       *)
(* create_genesis_block) is not among the sources; it is modelled from      *)
(* sections 3 and 4.1 of the specification.                                 *)
(***************************************************************************)
EXTENDS Integers, Sequences, FiniteSets, TLC

(***************************************************************************)
(* Bounds of the model.                                                     *)
(***************************************************************************)
\* longest chain a node builds or an adversarial peer offers
MaxLen == 3
\* longest pending pool (and so the most transactions in a block)
MaxPool == 2
\* the nonce search of sealing succeeds within 0..MaxNonce
MaxNonce == 1

(***************************************************************************)
(* Configuration of the network.                                            *)
(***************************************************************************)
\* config["difficulty"]: the required count of leading zero hex characters
\* (4 in the example configuration; 1 here, on digests of HashLen characters)
Difficulty == 1
\* the node ids (config["node_id"]); a node mines under its own id
Nodes == {1, 2}
\* the transactions a user or a peer can submit ({from, to, amount} records)
TxIds == {1}

(***************************************************************************)
(* Hash strings.  A digest is a string of HashLen hex characters; it is     *)
(* represented by the number it spells (0 .. 16^HashLen - 1), so equality   *)
(* of two such strings is equality of the numbers.  Strings an untrusted    *)
(* peer may put in a "hash" field that are not of that shape are            *)
(* represented by negative numbers:                                         *)
(*   NoHash       the field is missing or empty (falsy in Python)           *)
(*   BadHex       a non-empty string that is not hexadecimal                *)
(*   AltHex(v)    the digest spelling v written with one more leading "0"   *)
(*                (another string, the same base-16 integer)                *)
(***************************************************************************)
HashLen == 7
NoHash == -1
BadHex == -2
AltHex(v) == 0 - (v + 3)

IsDigestStr(h) == h >= 0
IsAltHex(h) == h <= -3

Pow16(n) == 16 ^ n

\* the canonical digest strings
HashSpace == Pow16(HashLen)

\* `if not h`: a missing or empty hash
Falsy(h) == h = NoHash

\* int(h, 16) raises ValueError (or TypeError for a missing hash)
HexRaises(h) == h = NoHash \/ h = BadHex

\* int(h, 16) where it does not raise
HexInt(h) == IF IsAltHex(h) THEN 0 - (h + 3) ELSE h

\* h.startswith("0" * d)
StartsWithZeros(h, d) ==
    IF d <= 0 THEN TRUE
    ELSE IF IsDigestStr(h) THEN d <= HashLen /\ h < Pow16(HashLen - d)
    ELSE IF IsAltHex(h) THEN d <= HashLen + 1 /\ HexInt(h) < Pow16(HashLen + 1 - d)
    ELSE FALSE

(***************************************************************************)
(* Blocks.  A block is the record of its serialised fields; timestamp and   *)
(* reward are the same for every block of the model and are left out.       *)
(***************************************************************************)
\* the sentinel prev_hash of genesis: the all-zero digest
ZeroHash == 0
\* the miner recorded in the genesis block
GenesisMiner == 0

Miners == Nodes \cup {GenesisMiner}

\* the transaction lists a block can carry
TxLists == UNION {[1..k -> TxIds] : k \in 0..MaxPool}

NTx == Cardinality(TxIds) + 1
NMiner == Cardinality(Miners)
NNonce == MaxNonce + 1
NIdx == MaxLen + 1

RECURSIVE TxCode(_)
TxCode(txs) == IF txs = <<>> THEN 0 ELSE Head(txs) + NTx * TxCode(Tail(txs))

TxSpace == NTx ^ (MaxPool + 1)

\* the number of field combinations a block has besides prev_hash, and one:
\* no block hashes to the sentinel
FieldSpace == 1 + NNonce * NMiner * TxSpace * NIdx

\* the digests below the proof-of-work target
PowLimit == Pow16(HashLen - Difficulty)

PrevSpace == PowLimit \div FieldSpace

FieldCode(b) ==
    1 + b.nonce + NNonce * (b.miner + NMiner * (TxCode(b.transactions) + TxSpace * (b.index % NIdx)))

PrevCode(p) == (p + PrevSpace) % PrevSpace

\* which nonce of 0..MaxNonce brings the digest under the target
PowPart(b) ==
    (b.nonce + b.index + b.miner + Len(b.transactions) + PrevCode(b.prev_hash)) % NNonce

\* hash_block: the digest of every field except hash
Digest(b) == PowPart(b) * PowLimit + FieldCode(b) + FieldSpace * PrevCode(b.prev_hash)

Block(idx, txs, prev, m, n, h) ==
    [index |-> idx, transactions |-> txs, prev_hash |-> prev, miner |-> m, nonce |-> n, hash |-> h]

\* Block.as_dict and create_block_from_dict: the same fields, hash included
as_dict(b) == b
create_block_from_dict(d) == d

WithNonce(b, n) == [b EXCEPT !.nonce = n]

\* create_block: search the nonces from 0 until the digest has `d` leading zeros
SealNonce(b, d) ==
    CHOOSE n \in 0..MaxNonce :
        /\ StartsWithZeros(Digest(WithNonce(b, n)), d)
        /\ \A k \in 0..(n - 1) : ~StartsWithZeros(Digest(WithNonce(b, k)), d)

create_block(txs, prev, m, idx, d) ==
    LET b0 == Block(idx, txs, prev, m, 0, NoHash)
        b1 == WithNonce(b0, SealNonce(b0, d))
    IN  [b1 EXCEPT !.hash = Digest(b1)]

create_genesis_block ==
    LET g == Block(0, <<>>, ZeroHash, GenesisMiner, 0, NoHash)
    IN  [g EXCEPT !.hash = Digest(g)]

(***************************************************************************)
(* chain.valid_chain.  `difficulty` is a number or NoDifficulty (None).     *)
(***************************************************************************)
NoDifficulty == -1

\* normalized[i]["hash"] after the code filled a missing hash with the digest
Filled(b) == IF Falsy(b.hash) THEN [b EXCEPT !.hash = Digest(create_block_from_dict(b))] ELSE b

\* the loop body for python index i >= 1 (sequence positions i and i+1), and on
RECURSIVE ValidFrom(_, _, _)
ValidFrom(norm, i, d) ==
    IF i > Len(norm) THEN TRUE
    ELSE LET prev == Filled(norm[i - 1])
             cur == norm[i]
             expected_hash == Digest(create_block_from_dict(cur))
             remote_hash == IF Falsy(cur.hash) THEN expected_hash ELSE cur.hash
         IN  IF cur.prev_hash # prev.hash THEN FALSE
             ELSE IF remote_hash # expected_hash THEN FALSE
             ELSE IF d # NoDifficulty /\ ~StartsWithZeros(remote_hash, d) THEN FALSE
             ELSE ValidFrom(norm, i + 1, d)

\* valid_chain with the loop over the blocks left out
valid_chain_unchecked(chain, d) == chain # <<>>

\* valid_chain with the difficulty not passed on to the proof-of-work check
valid_chain_unmined(chain, d) ==
    IF chain = <<>> THEN FALSE
    ELSE ValidFrom([i \in 1..Len(chain) |-> as_dict(chain[i])], 2, NoDifficulty)

valid_chain(chain, d) ==
    IF chain = <<>> THEN FALSE
    ELSE ValidFrom([i \in 1..Len(chain) |-> as_dict(chain[i])], 2, d)


(***************************************************************************)
(* The chains an untrusted peer may serve: every chain built by sealing     *)
(* blocks on genesis, and each of them with one block forged.               *)
(***************************************************************************)
Last(c) == c[Len(c)]

\* the block `m` would seal on top of chain c
NextBlock(c, txs, m) == create_block(txs, Last(c).hash, m, Len(c), Difficulty)

\* the chains of length k sealed on genesis by miners ms with transactions tls
RECURSIVE SealedChains(_, _, _)
SealedChains(k, ms, tls) ==
    IF k = 1 THEN {<<create_genesis_block>>}
    ELSE {Append(c, NextBlock(c, txs, m)) : c \in SealedChains(k - 1, ms, tls), txs \in tls, m \in ms}

\* a hash value no block of the chain has
UnrelatedHash == PowLimit - 1

Rehashed(b) == [b EXCEPT !.hash = Digest(b)]

\* what a peer can make of block b without sealing a new one
Forged(b) ==
    {[b EXCEPT !.transactions = t] : t \in TxLists \ {b.transactions}}
    \cup {[b EXCEPT !.prev_hash = UnrelatedHash]}
    \cup {Rehashed([b EXCEPT !.prev_hash = UnrelatedHash])}
    \cup {Rehashed(WithNonce(b, n)) : n \in (0..MaxNonce) \ {b.nonce}}
    \cup {[b EXCEPT !.hash = h] : h \in {NoHash, BadHex, AltHex(b.hash)}}

\* the chains of cs, each with one block forged
ForgedChains(cs) ==
    UNION {UNION {{[c EXCEPT ![i] = f] : f \in Forged(c[i])} : i \in 1..Len(c)} : c \in cs}

Offers(ms, tls) ==
    LET sealed == UNION {SealedChains(k, ms, tls) : k \in 1..MaxLen}
    IN  sealed \cup ForgedChains(sealed)

\* the candidates valid_chain is applied to
CandidateChains == Offers(Nodes, TxLists)

(***************************************************************************)
(* State.  Every node-indexed variable is a function on Nodes.              *)
(***************************************************************************)
VARIABLES
    vc_chain,   \* valid_chain: the candidate it is called on
    vc_d,       \* valid_chain: its difficulty argument
    vc_ret,     \* valid_chain: "none" before the call, then "True" or "False"
    peers,      \* the peers file of the node: a sequence of peer ids
    offers,     \* the chains the untrusted peer holds: it serves them and sends their blocks
    heap,       \* the list objects of the node's process: list id -> chain
    glob,       \* the list the module-level name `blockchain` is bound to
    file,       \* the chain file (config["blockchain_file"]); <<>> = no file
    pool,       \* the `transactions` list (pending pool)
    inbox,      \* connections accepted by the server, not yet handled
    main,       \* the main (CLI) thread: where it is, and mine_block's locals
    rc,         \* the resolve_conflicts frame of the main and worker threads
    hnd,        \* the handle_client thread: where it is, and its locals
    mined,      \* how many blocks the node's CLI has mined
    seen,       \* history: the values the served list has had while a GET reads it
    bc          \* a call of broadcast_block / broadcast_transaction: its loop over the peers

vcvars == <<vc_chain, vc_d, vc_ret>>
nodevars == <<peers, offers, heap, glob, file, pool, inbox, main, rc, hnd, mined, seen, bc>>
vars == <<vc_chain, vc_d, vc_ret, peers, offers, heap, glob, file, pool, inbox, main, rc, hnd, mined, seen, bc>>

\* most blocks one node's CLI mines
MaxMine == 1
\* most connections waiting for a handler thread at one node
MaxInbox == 1

\* the node of the one-node specifications, and what its untrusted peer offers:
\* the chains sealed under the other node's id, and their forgeries
OneNode == {1}
EnvChains == Offers(Nodes \ OneNode, {<<>>})

\* the peer id of an untrusted peer outside the model's nodes
Env == 0

\* the list object load_chain returned at startup: the one start_server got
ServerList == 0
ListIds == 0..2

Threads == {"main", "worker"}

\* the history variable: kept by every step.  While a handler of node n reads the served list for a
\* GET it holds every value the list has had
Reading(h) == h.pc \in {"iter", "send"}

Observe ==
    seen' = [n \in Nodes |->
               IF Reading(hnd'[n])
               THEN (IF Reading(hnd[n]) THEN seen[n] ELSE {}) \cup {heap'[n][ServerList]}
               ELSE {}]

(***************************************************************************)
(* chain.load_chain / save_chain and the serialisation of a chain.          *)
(***************************************************************************)
\* to_dicts / [b.as_dict() for b in chain]
to_dicts(chain) == [i \in 1..Len(chain) |-> as_dict(chain[i])]

\* load_chain without its last line, the genesis chain of a node that has no
\* chain file
load_chain_of_file(f) == [i \in 1..Len(f) |-> create_block_from_dict(f[i])]

load_chain(f) ==
    IF f # <<>> THEN [i \in 1..Len(f) |-> create_block_from_dict(f[i])]
    ELSE <<create_genesis_block>>

save_chain(chain) == to_dicts(chain)

(***************************************************************************)
(* The adoption decision, as resolve_conflicts takes it (main.py 141-154)   *)
(* and as handle_client takes it (network.py 163-175).                      *)
(***************************************************************************)
TieBreak(remote_last, local_last) ==
    /\ ~Falsy(remote_last)
    /\ ~Falsy(local_last)
    /\ ~HexRaises(remote_last)
    /\ ~HexRaises(local_last)
    /\ HexInt(remote_last) < HexInt(local_last)

\* the decision with the comparison of the lengths left out
ResolveAdoptsOnTieOnly(local_norm, remote_norm) ==
    /\ Len(remote_norm) = Len(local_norm)
    /\ TieBreak(Last(remote_norm).hash, Last(local_norm).hash)

\* the decision with >= for > in the comparison of the lengths
ResolveAdoptsNotShorter(local_norm, remote_norm) ==
    Len(remote_norm) >= Len(local_norm)

ResolveAdopts(local_norm, remote_norm) ==
    IF Len(remote_norm) > Len(local_norm) THEN TRUE
    ELSE IF Len(remote_norm) = Len(local_norm)
         THEN TieBreak(Last(remote_norm).hash, Last(local_norm).hash)
         ELSE FALSE

\* the decision of replace_local_chain_if_longer (main.py 79-92), which has no
\* tie-break, in the handler's place
HandlerAdoptsIfLonger(blockchain, remote_chain) ==
    Len(remote_chain) > Len(blockchain)

HandlerAdopts(blockchain, remote_chain) ==
    IF Len(remote_chain) > Len(blockchain) THEN TRUE
    ELSE IF Len(remote_chain) = Len(blockchain)
         THEN /\ ~Falsy(Last(remote_chain).hash)
              /\ ~HexRaises(Last(remote_chain).hash)
              /\ ~HexRaises(Last(blockchain).hash)
              /\ HexInt(Last(remote_chain).hash) < HexInt(Last(blockchain).hash)
         ELSE FALSE

(***************************************************************************)
(* The network.                                                             *)
(***************************************************************************)
\* what GET /chain on peer p answers: a node serialises the list its server
\* was started with; an untrusted peer answers anything, or not at all
Served(p) ==
    IF p \in Nodes THEN {to_dicts(heap[p][ServerList])}
    ELSE offers \cup {<<>>}

BlockMsg(b, from) == [type |-> "block", data |-> as_dict(b), from |-> from]
TxMsg(tx, from) == [type |-> "tx", data |-> tx, from |-> from]

\* the nodes among the peers of n: a send to anyone else reaches no server
PeerNodes(n) == {peers[n][i] : i \in 1..Len(peers[n])} \cap Nodes

Broadcast(n, msg) ==
    inbox' = [p \in Nodes |-> IF p \in PeerNodes(n) THEN inbox[p] \cup {msg} ELSE inbox[p]]

(***************************************************************************)
(* resolve_conflicts (main.py 94-170), run by thread t of node n.           *)
(*   pc      "idle", "fetch", "decide", "write", "load", "ret"              *)
(*   i       the peer the loop is at                                        *)
(*   ref     the list passed as local_chain                                 *)
(*   own     new_chain is a reloaded list of its own, held in val           *)
(*   remote  remote_chain, as the last fetch left it                        *)
(***************************************************************************)
IdleFrame == [pc |-> "idle", i |-> 0, ref |-> ServerList, own |-> FALSE, val |-> <<>>, remote |-> <<>>]

CallFrame(n) ==
    [pc |-> IF peers[n] = <<>> THEN "ret" ELSE "fetch",
     i |-> 1, ref |-> glob[n], own |-> FALSE, val |-> <<>>, remote |-> <<>>]

\* `continue`, or the end of the loop body: on to the next peer
NextPeer(n, r) ==
    [r EXCEPT !.pc = IF r.i + 1 > Len(peers[n]) THEN "ret" ELSE "fetch",
              !.i = r.i + 1]

\* new_chain were it never assigned again after line 111
new_chain_unassigned(n, r) == heap[n][r.ref]

new_chain(n, r) == IF r.own THEN r.val ELSE heap[n][r.ref]

SetRc(n, t, r) == rc' = [rc EXCEPT ![n][t] = r]

\* fetch_chain_from_peer
RcFetch(n, t) ==
    /\ rc[n][t].pc = "fetch"
    /\ \E c \in Served(peers[n][rc[n][t].i]) :
          SetRc(n, t, IF c = <<>> THEN NextPeer(n, [rc[n][t] EXCEPT !.remote = c])
                      ELSE [rc[n][t] EXCEPT !.pc = "decide", !.remote = c])
    /\ UNCHANGED <<vcvars, bc, peers, offers, heap, glob, file, pool, inbox, main, hnd, mined>>
    /\ Observe

\* validate remote_chain, normalise both, compare lengths and last hashes
RcDecide(n, t) ==
    LET r == rc[n][t] IN
    /\ r.pc = "decide"
    /\ SetRc(n, t, IF ~valid_chain(r.remote, Difficulty) THEN NextPeer(n, r)
                   ELSE IF ResolveAdopts(to_dicts(new_chain(n, r)), to_dicts(r.remote))
                        THEN [r EXCEPT !.pc = "write"]
                        ELSE NextPeer(n, r))
    /\ UNCHANGED <<vcvars, bc, peers, offers, heap, glob, file, pool, inbox, main, hnd, mined>>
    /\ Observe

\* json.dump(remote_norm, f)
RcWrite(n, t) ==
    LET r == rc[n][t] IN
    /\ r.pc = "write"
    /\ file' = [file EXCEPT ![n] = to_dicts(r.remote)]
    /\ SetRc(n, t, [r EXCEPT !.pc = "load"])
    /\ UNCHANGED <<vcvars, bc, peers, offers, heap, glob, pool, inbox, main, hnd, mined>>
    /\ Observe

\* reloaded = _load_chain(blockchain_file); new_chain = reloaded
RcLoad(n, t) ==
    LET r == rc[n][t] IN
    /\ r.pc = "load"
    /\ SetRc(n, t, NextPeer(n, [r EXCEPT !.own = TRUE, !.ref = ServerList,
                                          !.val = load_chain(file[n])]))
    /\ UNCHANGED <<vcvars, bc, peers, offers, heap, glob, file, pool, inbox, main, hnd, mined>>
    /\ Observe

RcStep(n, t) == RcFetch(n, t) \/ RcDecide(n, t) \/ RcWrite(n, t) \/ RcLoad(n, t)

(***************************************************************************)
(* The list objects.  Besides the server's list a process holds the list    *)
(* `blockchain` is bound to and, while the worker's resolve_conflicts runs  *)
(* on a list the main thread has since unbound, that list.  A list nothing  *)
(* refers to any more is dropped (its slot holds <<>>).                     *)
(***************************************************************************)
WorkerRefs(n, frame) == IF frame.pc # "idle" /\ ~frame.own THEN {frame.ref} ELSE {}

Collect(h, live) == [id \in ListIds |-> IF id \in live THEN h[id] ELSE <<>>]

FreshId(n) == CHOOSE id \in ListIds : id # ServerList /\ id \notin WorkerRefs(n, rc[n]["worker"])

(***************************************************************************)
(* The main thread (main.py 205-263).                                       *)
(*   pc   "startup", "menu", "view", "premine", "seal", "append", "clear",  *)
(*        "save", "bcast", "postmine", "off"                                *)
(*   blk  new_block of mine_block                                           *)
(***************************************************************************)
NoBlock == Block(0, <<>>, NoHash, GenesisMiner, 0, NoHash)

CallSites == {"startup", "view", "premine", "postmine"}

AfterCall(pc) == IF pc = "premine" THEN "seal" ELSE "menu"

SetMain(n, pc, blk) == main' = [main EXCEPT ![n] = [pc |-> pc, blk |-> blk]]

\* line 206: the call of resolve_conflicts at startup
MainStartup(n) ==
    /\ main[n].pc = "startup"
    /\ rc[n]["main"].pc = "idle"
    /\ SetRc(n, "main", CallFrame(n))
    /\ UNCHANGED <<vcvars, bc, peers, offers, heap, glob, file, pool, inbox, main, hnd, mined>>
    /\ Observe

\* choice 3: resolve_conflicts, then print_chain
MenuView(n) ==
    /\ main[n].pc = "menu"
    /\ SetMain(n, "view", NoBlock)
    /\ SetRc(n, "main", CallFrame(n))
    /\ UNCHANGED <<vcvars, bc, peers, offers, heap, glob, file, pool, inbox, hnd, mined>>
    /\ Observe

\* choice 2: resolve_conflicts, then mine_block, then resolve_conflicts
MenuMine(n) ==
    /\ main[n].pc = "menu"
    /\ mined[n] < MaxMine
    /\ SetMain(n, "premine", NoBlock)
    /\ SetRc(n, "main", CallFrame(n))
    /\ mined' = [mined EXCEPT ![n] = mined[n] + 1]
    /\ UNCHANGED <<vcvars, bc, peers, offers, heap, glob, file, pool, inbox, hnd>>
    /\ Observe

\* choice 1: make_transaction (chain.py 138-142); the user creates
\* transactions while a block is still to be mined
MenuTx(n) ==
    /\ main[n].pc = "menu"
    /\ Len(pool[n]) < MaxPool
    /\ mined[n] < MaxMine
    /\ \E tx \in TxIds :
          /\ pool' = [pool EXCEPT ![n] = Append(pool[n], tx)]
          /\ Broadcast(n, TxMsg(tx, n))
    /\ UNCHANGED <<vcvars, bc, peers, offers, heap, glob, file, main, rc, hnd, mined>>
    /\ Observe

\* `blockchain = resolve_conflicts(...)`: the name is bound to what the call
\* returns, the list it was given or a reloaded one
MainReturn(n) ==
    LET r == rc[n]["main"]
        fresh == FreshId(n)
    IN  /\ r.pc = "ret"
        /\ main[n].pc \in CallSites
        /\ IF r.own
           THEN /\ glob' = [glob EXCEPT ![n] = fresh]
                /\ heap' = [heap EXCEPT ![n] =
                              Collect([heap[n] EXCEPT ![fresh] = r.val],
                                      {ServerList, fresh} \cup WorkerRefs(n, rc[n]["worker"]))]
           ELSE UNCHANGED <<glob, heap>>
        /\ SetMain(n, AfterCall(main[n].pc), NoBlock)
        /\ SetRc(n, "main", IdleFrame)
        /\ UNCHANGED <<vcvars, bc, peers, offers, file, pool, inbox, hnd, mined>>
        /\ Observe

\* mine_block, chain.py 123-130: the tip and the length are read, the block sealed
MineSeal(n) ==
    LET blockchain == heap[n][glob[n]] IN
    /\ main[n].pc = "seal"
    /\ blockchain # <<>>
    /\ SetMain(n, "append",
               create_block(pool[n], Last(blockchain).hash, n, Len(blockchain), Difficulty))
    /\ UNCHANGED <<vcvars, bc, peers, offers, heap, glob, file, pool, inbox, rc, hnd, mined>>
    /\ Observe

\* chain.py 131: blockchain.append(new_block)
MineAppend(n) ==
    /\ main[n].pc = "append"
    /\ heap' = [heap EXCEPT ![n][glob[n]] = Append(@, main[n].blk)]
    /\ SetMain(n, "clear", main[n].blk)
    /\ UNCHANGED <<vcvars, bc, peers, offers, glob, file, pool, inbox, rc, hnd, mined>>
    /\ Observe

\* chain.py 132: transactions.clear()
MineClear(n) ==
    /\ main[n].pc = "clear"
    /\ pool' = [pool EXCEPT ![n] = <<>>]
    /\ SetMain(n, "save", main[n].blk)
    /\ UNCHANGED <<vcvars, bc, peers, offers, heap, glob, file, inbox, rc, hnd, mined>>
    /\ Observe

\* chain.py 133: save_chain(blockchain_fpath, blockchain)
MineSave(n) ==
    /\ main[n].pc = "save"
    /\ file' = [file EXCEPT ![n] = save_chain(heap[n][glob[n]])]
    /\ SetMain(n, "bcast", main[n].blk)
    /\ UNCHANGED <<vcvars, bc, peers, offers, heap, glob, pool, inbox, rc, hnd, mined>>
    /\ Observe

\* chain.py 134: broadcast_block; then line 246, resolve_conflicts again
MineBroadcast(n) ==
    /\ main[n].pc = "bcast"
    /\ Broadcast(n, BlockMsg(main[n].blk, n))
    /\ SetMain(n, "postmine", NoBlock)
    /\ SetRc(n, "main", CallFrame(n))
    /\ UNCHANGED <<vcvars, bc, peers, offers, heap, glob, file, pool, hnd, mined>>
    /\ Observe

(***************************************************************************)
(* The periodic sync worker (main.py 173-190).                              *)
(***************************************************************************)
\* line 177: resolve_conflicts(blockchain, ...)
WorkerCall(n) ==
    /\ rc[n]["worker"].pc = "idle"
    /\ main[n].pc # "off"
    /\ SetRc(n, "worker", CallFrame(n))
    /\ UNCHANGED <<vcvars, bc, peers, offers, heap, glob, file, pool, inbox, main, hnd, mined>>
    /\ Observe

\* lines 178-181: if new_chain: blockchain[:] = new_chain
WorkerInstall(n) ==
    LET r == rc[n]["worker"]
        result == new_chain(n, r)
        h == IF result # <<>> THEN [heap[n] EXCEPT ![glob[n]] = result] ELSE heap[n]
    IN  /\ r.pc = "ret"
        /\ heap' = [heap EXCEPT ![n] = Collect(h, {ServerList, glob[n]})]
        /\ SetRc(n, "worker", IdleFrame)
        /\ UNCHANGED <<vcvars, bc, peers, offers, glob, file, pool, inbox, main, hnd, mined>>
        /\ Observe

(***************************************************************************)
(* handle_client (network.py 45-212), one thread per accepted connection.   *)
(*   pc          "idle", "recv", "save", "fetch", "decide", "write", "load",*)
(*               "iter", "send"                                             *)
(*   msg         the payload received                                       *)
(*   remote      remote_chain                                               *)
(*   chain_list  the list the GET branch builds                             *)
(***************************************************************************)
NoMsg == [type |-> "none", data |-> NoBlock, from |-> Env]

IdleHandler == [pc |-> "idle", msg |-> NoMsg, remote |-> <<>>, chain_list |-> <<>>]

SetHnd(n, h) == hnd' = [hnd EXCEPT ![n] = h]

\* server.accept() and the handler's recv
HandlerAccept(n) ==
    /\ hnd[n].pc = "idle"
    /\ \E m \in inbox[n] :
          /\ inbox' = [inbox EXCEPT ![n] = inbox[n] \ {m}]
          /\ SetHnd(n, [pc |-> "recv", msg |-> m, remote |-> <<>>, chain_list |-> <<>>])
    /\ UNCHANGED <<vcvars, bc, peers, offers, heap, glob, file, pool, main, rc, mined>>
    /\ Observe

\* lines 199-203: a transaction not yet in the pool is appended
HandlerTx(n) ==
    /\ hnd[n].pc = "recv"
    /\ hnd[n].msg.type = "tx"
    /\ LET tx == hnd[n].msg.data IN
          pool' = [pool EXCEPT ![n] =
                     IF \E k \in 1..Len(pool[n]) : pool[n][k] = tx THEN pool[n]
                     ELSE Append(pool[n], tx)]
    /\ SetHnd(n, IdleHandler)
    /\ UNCHANGED <<vcvars, bc, peers, offers, heap, glob, file, inbox, main, rc, mined>>
    /\ Observe

\* lines 115-119: the block extends the tip, is sealed and hashes to its hash
\* the condition with the proof-of-work conjunct left out
ExtendsUnmined(blockchain, block, d) ==
    /\ block.prev_hash = Last(blockchain).hash
    /\ block.hash = Digest(block)

Extends(blockchain, block, d) ==
    /\ block.prev_hash = Last(blockchain).hash
    /\ StartsWithZeros(block.hash, d)
    /\ block.hash = Digest(block)

\* lines 110-125: a block that extends the tip is appended; for any other the
\* sender's chain is fetched.  For a hash that is missing (None) the call
\* block.hash.startswith raises, which line 204 catches; for one that is the
\* empty string it is false.
HandlerBlock(n) ==
    LET blockchain == heap[n][ServerList]
        block == create_block_from_dict(hnd[n].msg.data)
    IN  /\ hnd[n].pc = "recv"
        /\ hnd[n].msg.type = "block"
        /\ IF blockchain = <<>>
           THEN SetHnd(n, IdleHandler) /\ UNCHANGED heap
           ELSE IF block.prev_hash = Last(blockchain).hash /\ Falsy(block.hash)
           THEN /\ \E raised \in BOOLEAN :
                      SetHnd(n, IF raised THEN IdleHandler ELSE [hnd[n] EXCEPT !.pc = "fetch"])
                /\ UNCHANGED heap
           ELSE IF Extends(blockchain, block, Difficulty)
           THEN /\ heap' = [heap EXCEPT ![n][ServerList] = Append(@, block)]
                /\ SetHnd(n, [hnd[n] EXCEPT !.pc = "save"])
           ELSE SetHnd(n, [hnd[n] EXCEPT !.pc = "fetch"]) /\ UNCHANGED heap
        /\ UNCHANGED <<vcvars, bc, peers, offers, glob, file, pool, inbox, main, rc, mined>>
        /\ Observe

\* lines 121 and 187: on_valid_block_callback(blockchain_fpath, blockchain)
HandlerSave(n) ==
    /\ hnd[n].pc = "save"
    /\ file' = [file EXCEPT ![n] = save_chain(heap[n][ServerList])]
    /\ SetHnd(n, IdleHandler)
    /\ UNCHANGED <<vcvars, bc, peers, offers, heap, glob, pool, inbox, main, rc, mined>>
    /\ Observe

\* lines 128-152: GET the sender's chain
HandlerFetch(n) ==
    /\ hnd[n].pc = "fetch"
    /\ \E c \in Served(hnd[n].msg.from) :
          SetHnd(n, IF c = <<>> THEN IdleHandler
                    ELSE [hnd[n] EXCEPT !.pc = "decide", !.remote = c])
    /\ UNCHANGED <<vcvars, bc, peers, offers, heap, glob, file, pool, inbox, main, rc, mined>>
    /\ Observe

\* lines 154-177: validate the remote chain and decide
HandlerDecide(n) ==
    LET h == hnd[n] IN
    /\ h.pc = "decide"
    /\ SetHnd(n, IF /\ valid_chain(h.remote, Difficulty)
                    /\ HandlerAdopts(heap[n][ServerList], h.remote)
                 THEN [h EXCEPT !.pc = "write"]
                 ELSE IdleHandler)
    /\ UNCHANGED <<vcvars, bc, peers, offers, heap, glob, file, pool, inbox, main, rc, mined>>
    /\ Observe

\* lines 180-181: json.dump(remote_chain, f)
HandlerWrite(n) ==
    /\ hnd[n].pc = "write"
    /\ file' = [file EXCEPT ![n] = hnd[n].remote]
    /\ SetHnd(n, [hnd[n] EXCEPT !.pc = "load"])
    /\ UNCHANGED <<vcvars, bc, peers, offers, heap, glob, pool, inbox, main, rc, mined>>
    /\ Observe

\* lines 182-183: reloaded = load_chain(blockchain_fpath); blockchain[:] = reloaded
HandlerLoad(n) ==
    /\ hnd[n].pc = "load"
    /\ heap' = [heap EXCEPT ![n][ServerList] = load_chain(file[n])]
    /\ SetHnd(n, [hnd[n] EXCEPT !.pc = "save", !.remote = <<>>])
    /\ UNCHANGED <<vcvars, bc, peers, offers, glob, file, pool, inbox, main, rc, mined>>
    /\ Observe

(***************************************************************************)
(* The other payloads.  In the model the `type` of a payload that is not an *)
(* envelope names its kind:                                                 *)
(*   "GET"          an HTTP request line, data = its path                   *)
(*   "empty"        no bytes            "undecodable"  bytes that are no text*)
(*   "blank"        white space         "nonjson"      text that is no JSON *)
(*   "nonobject"    a JSON value that is no object ([] say)                 *)
(*   "notype"       a JSON object without "type"                            *)
(*   "nodata"       {"type": "block"} or {"type": "tx"}, without "data"     *)
(***************************************************************************)
Endpoints == {"/chain", "/blockchain", "/blockchain.json", "/blocks"}

Dropped == {"empty", "undecodable", "blank", "nonjson"}

Raising == {"nonobject", "nodata"}

Unhandled == {"notype", "get_chain", "chain"}

\* lines 56-68 and 104-108: nothing received, or nothing that parses: return
HandlerDrop(n) ==
    /\ hnd[n].pc = "recv"
    /\ hnd[n].msg.type \in Dropped
    /\ SetHnd(n, IdleHandler)
    /\ UNCHANGED <<vcvars, bc, peers, offers, heap, glob, file, pool, inbox, main, rc, mined>>
    /\ Observe

\* msg.get on a value that is no object (line 110), msg["data"] on an object
\* without it (lines 111, 200): the exception is caught at line 204
HandlerRaise(n) ==
    /\ hnd[n].pc = "recv"
    /\ hnd[n].msg.type \in Raising
    /\ SetHnd(n, IdleHandler)
    /\ UNCHANGED <<vcvars, bc, peers, offers, heap, glob, file, pool, inbox, main, rc, mined>>
    /\ Observe

\* lines 110 and 199: the type is neither "block" nor "tx"; no branch is taken
HandlerOther(n) ==
    /\ hnd[n].pc = "recv"
    /\ hnd[n].msg.type \in Unhandled
    /\ SetHnd(n, IdleHandler)
    /\ UNCHANGED <<vcvars, bc, peers, offers, heap, glob, file, pool, inbox, main, rc, mined>>
    /\ Observe

\* lines 72-77 and 93-100: a GET of an endpoint is answered with the chain,
\* any other GET with 404
HandlerGet(n) ==
    /\ hnd[n].pc = "recv"
    /\ hnd[n].msg.type = "GET"
    /\ SetHnd(n, IF hnd[n].msg.data \in Endpoints THEN [hnd[n] EXCEPT !.pc = "iter"]
                 ELSE IdleHandler)
    /\ UNCHANGED <<vcvars, bc, peers, offers, heap, glob, file, pool, inbox, main, rc, mined>>
    /\ Observe

\* line 79: chain_list = [b.as_dict() for b in blockchain]; the list iterator
\* yields the element at its index while the index is below the list's length
HandlerIter(n) ==
    LET blockchain == heap[n][ServerList]
        index == Len(hnd[n].chain_list)
    IN  /\ hnd[n].pc = "iter"
        /\ SetHnd(n, IF index < Len(blockchain)
                     THEN [hnd[n] EXCEPT !.chain_list = Append(@, as_dict(blockchain[index + 1]))]
                     ELSE [hnd[n] EXCEPT !.pc = "send"])
        /\ UNCHANGED <<vcvars, bc, peers, offers, heap, glob, file, pool, inbox, main, rc, mined>>
        /\ Observe

\* lines 80-92: conn.send(resp.encode()); return
HandlerSend(n) ==
    /\ hnd[n].pc = "send"
    /\ SetHnd(n, IdleHandler)
    /\ UNCHANGED <<vcvars, bc, peers, offers, heap, glob, file, pool, inbox, main, rc, mined>>
    /\ Observe

(***************************************************************************)
(* The untrusted peer: it connects and sends a block or a transaction.      *)
(***************************************************************************)
EnvBlocks == UNION {{c[i] : i \in 1..Len(c)} : c \in offers}

EnvSend(n) ==
    /\ main[n].pc # "off"
    /\ Env \in {peers[n][i] : i \in 1..Len(peers[n])}
    /\ Cardinality(inbox[n]) < MaxInbox
    /\ \E m \in {BlockMsg(b, Env) : b \in EnvBlocks} \cup {TxMsg(tx, Env) : tx \in TxIds} :
          inbox' = [inbox EXCEPT ![n] = inbox[n] \cup {m}]
    /\ UNCHANGED <<vcvars, bc, peers, offers, heap, glob, file, pool, main, rc, hnd, mined>>
    /\ Observe

\* it requests the chain, or another path, over HTTP
GetMsg(path) == [type |-> "GET", data |-> path, from |-> Env]

EnvGet(n) ==
    /\ main[n].pc # "off"
    /\ Env \in {peers[n][i] : i \in 1..Len(peers[n])}
    /\ Cardinality(inbox[n]) < MaxInbox
    /\ \E path \in {"/chain", "/"} :
          inbox' = [inbox EXCEPT ![n] = inbox[n] \cup {GetMsg(path)}]
    /\ UNCHANGED <<vcvars, bc, peers, offers, heap, glob, file, pool, main, rc, hnd, mined>>
    /\ Observe

\* a "tx" payload that is no transaction: an object without from, to, amount
BadTx == 2

\* it sends a 'get_chain' or a 'chain' envelope, or a payload that is malformed
EnvWire(n) ==
    /\ main[n].pc # "off"
    /\ Env \in {peers[n][i] : i \in 1..Len(peers[n])}
    /\ Cardinality(inbox[n]) < MaxInbox
    /\ \E m \in {[type |-> k, data |-> NoBlock, from |-> Env] : k \in Dropped \cup Raising \cup {"notype", "get_chain"}}
                 \cup {[type |-> "chain", data |-> c, from |-> Env] : c \in offers}
                 \cup (IF Len(pool[n]) < MaxPool THEN {TxMsg(BadTx, Env)} ELSE {}) :
          inbox' = [inbox EXCEPT ![n] = inbox[n] \cup {m}]
    /\ UNCHANGED <<vcvars, bc, peers, offers, heap, glob, file, pool, main, rc, hnd, mined>>
    /\ Observe

(***************************************************************************)
(* The node after construction (main.py 34-36, 192-203): the chain loaded   *)
(* from the chain file, the server and the sync worker started.  `files`    *)
(* gives each node's chain file (<<>>: the node starts without one).        *)
(***************************************************************************)
InitNode(running, pf, files, served) ==
    /\ peers = pf
    /\ offers = served
    /\ file = files
    /\ heap = [n \in Nodes |->
                 [id \in ListIds |-> IF id = ServerList THEN load_chain(files[n]) ELSE <<>>]]
    /\ glob = [n \in Nodes |-> ServerList]
    /\ pool = [n \in Nodes |-> <<>>]
    /\ inbox = [n \in Nodes |-> {}]
    /\ main = [n \in Nodes |-> [pc |-> IF n \in running THEN "startup" ELSE "off", blk |-> NoBlock]]
    /\ rc = [n \in Nodes |-> [t \in Threads |-> IdleFrame]]
    /\ hnd = [n \in Nodes |-> IdleHandler]
    /\ mined = [n \in Nodes |-> 0]
    /\ seen = [n \in Nodes |-> {}]
    /\ bc = [n \in Nodes |-> [pc |-> "idle", i |-> 0, msg |-> NoMsg, log |-> <<>>]]

NoValidCall ==
    /\ vc_chain = <<>>
    /\ vc_d = NoDifficulty
    /\ vc_ret = "none"

NoFiles == [n \in Nodes |-> <<>>]

(***************************************************************************)
(* The steps of a node.  Begin: a thread starts an operation (a CLI choice, *)
(* a sync pass, a connection).  Step: a thread goes on with one.            *)
(***************************************************************************)
Begin(n) ==
    \/ MainStartup(n)
    \/ MenuView(n)
    \/ MenuMine(n)
    \/ MenuTx(n)
    \/ WorkerCall(n)

MainStep(n) ==
    \/ RcStep(n, "main")
    \/ MainReturn(n)
    \/ MineSeal(n)
    \/ MineAppend(n)
    \/ MineClear(n)
    \/ MineSave(n)
    \/ MineBroadcast(n)

WorkerStep(n) ==
    \/ RcStep(n, "worker")
    \/ WorkerInstall(n)

HandlerStep(n) ==
    \/ HandlerTx(n)
    \/ HandlerBlock(n)
    \/ HandlerSave(n)
    \/ HandlerFetch(n)
    \/ HandlerDecide(n)
    \/ HandlerWrite(n)
    \/ HandlerLoad(n)

\* the GET branch of the handler
GetStep(n) ==
    \/ HandlerGet(n)
    \/ HandlerIter(n)
    \/ HandlerSend(n)

\* what the handler does with the other payloads
WireStep(n) ==
    \/ HandlerDrop(n)
    \/ HandlerRaise(n)
    \/ HandlerOther(n)

Step(n) == MainStep(n) \/ WorkerStep(n) \/ HandlerStep(n)


\* no operation is in progress at node n
Quiet(n) ==
    /\ main[n].pc \in {"startup", "menu", "off"}
    /\ rc[n]["main"].pc = "idle"
    /\ rc[n]["worker"].pc = "idle"
    /\ hnd[n].pc = "idle"

\* the operations of node n run one at a time: a thread starts one when none
\* is in progress, and an accepted connection is handled before anything else
Waiting(n) == Quiet(n) /\ inbox[n] = {}

OneAtATime(n) ==
    \/ Waiting(n) /\ Begin(n)
    \/ Quiet(n) /\ HandlerAccept(n)
    \/ Step(n)

(***************************************************************************)
(* Spec: one node and a peer that holds one of the chains sealed on         *)
(* genesis; the node's threads interleave freely, at most MaxBusy of them   *)
(* in an operation at a time.                                               *)
(***************************************************************************)
MaxBusy == 2

MainBusy(n) == main[n].pc \notin {"startup", "menu", "off"} \/ rc[n]["main"].pc # "idle"
WorkerBusy(n) == rc[n]["worker"].pc # "idle"
HandlerBusy(n) == hnd[n].pc # "idle" \/ inbox[n] # {}

Busy(n) ==
    (IF MainBusy(n) THEN 1 ELSE 0) + (IF WorkerBusy(n) THEN 1 ELSE 0)
        + (IF HandlerBusy(n) THEN 1 ELSE 0)

EnvPeers == [n \in Nodes |-> IF n \in OneNode THEN <<Env>> ELSE <<>>]

\* the chains sealed on genesis under the other node's id
SealedOffers == UNION {SealedChains(k, Nodes \ OneNode, {<<>>}) : k \in 1..MaxLen}

Init ==
    /\ NoValidCall
    /\ \E c \in SealedOffers : InitNode(OneNode, EnvPeers, NoFiles, {c})

Next ==
    \E n \in Nodes :
        \/ Busy(n) < MaxBusy /\ (Begin(n) \/ EnvSend(n))
        \/ HandlerAccept(n)
        \/ Step(n)

Spec == Init /\ [][Next]_vars

(***************************************************************************)
(* SpecRead: the same node and peer, the peer requesting the chain over     *)
(* HTTP while the node's main thread and sync worker run.                   *)
(***************************************************************************)
NextRead ==
    \E n \in Nodes :
        \/ Busy(n) < MaxBusy /\ (Begin(n) \/ EnvGet(n))
        \/ HandlerAccept(n)
        \/ MainStep(n)
        \/ WorkerStep(n)
        \/ GetStep(n)

SpecRead == Init /\ [][NextRead]_vars

(***************************************************************************)
(* SpecSeq: the same node with its operations run one at a time, and a     *)
(* peer that holds any one chain of EnvChains, forged or not.               *)
(***************************************************************************)
InitSeq ==
    /\ NoValidCall
    /\ \E c \in EnvChains : InitNode(OneNode, EnvPeers, NoFiles, {c})

NextSeq ==
    \E n \in Nodes :
        \/ OneAtATime(n)
        \/ Waiting(n) /\ (EnvSend(n) \/ EnvGet(n) \/ EnvWire(n))
        \/ GetStep(n)
        \/ WireStep(n)

SpecSeq == InitSeq /\ [][NextSeq]_vars

(***************************************************************************)
(* SpecFold: the node with two untrusted peers in its peers file, each      *)
(* answering with one of two chains; the main thread and the sync worker    *)
(* run one at a time.                                                       *)
(***************************************************************************)
TwoPeers == [n \in Nodes |-> IF n \in OneNode THEN <<Env, Env>> ELSE <<>>]

InitFold ==
    /\ NoValidCall
    /\ \E c1, c2 \in EnvChains : InitNode(OneNode, TwoPeers, NoFiles, {c1, c2})

NextFold ==
    \E n \in Nodes :
        \/ Waiting(n) /\ Begin(n)
        \/ MainStep(n)
        \/ WorkerStep(n)

SpecFold == InitFold /\ [][NextFold]_vars

(***************************************************************************)
(* broadcast_block and broadcast_transaction (network.py 19-42) as a loop   *)
(* over the peers file, one connection per peer, and SpecIsolate: a node    *)
(* with any peers file of up to MaxPeers entries whose peers may each fail  *)
(* to answer, running broadcasts and sync passes.                           *)
(*   pc    "idle", "loop", "done"                                           *)
(*   i     the peer the loop is at                                          *)
(*   msg   the envelope sent                                                *)
(*   log   history: for each peer contacted, whether the connection worked  *)
(***************************************************************************)
MaxPeers == 3

IdleBcast == [pc |-> "idle", i |-> 0, msg |-> NoMsg, log |-> <<>>]

\* the loop with the try around it instead of inside it
AfterContactAborts(len, i, ok) == IF ~ok \/ i + 1 > len THEN "done" ELSE "loop"

\* lines 21-28 and 32-42: the try is inside the loop; after a peer, reached or
\* not, the loop goes on to the next
AfterContact(len, i, ok) == IF i + 1 > len THEN "done" ELSE "loop"

\* line 21 / 32: for peer in list_peers(peers_fpath)
BcastStart(n) ==
    /\ bc[n].pc = "idle"
    /\ main[n].pc # "off"
    /\ \E m \in {BlockMsg(NextBlock(heap[n][glob[n]], <<>>, n), n)}
                   \cup {TxMsg(tx, n) : tx \in TxIds} :
          bc' = [bc EXCEPT ![n] = [pc |-> IF peers[n] = <<>> THEN "done" ELSE "loop",
                                   i |-> 1, msg |-> m, log |-> <<>>]]
    /\ UNCHANGED <<vcvars, peers, offers, heap, glob, file, pool, inbox, main, rc, hnd, mined>>
    /\ Observe

\* lines 22-28 / 33-42: connect and send; an exception is swallowed
BcastContact(n) ==
    LET b == bc[n]
        peer == peers[n][b.i]
    IN  /\ b.pc = "loop"
        /\ \E ok \in BOOLEAN :
              /\ bc' = [bc EXCEPT ![n] = [b EXCEPT !.pc = AfterContact(Len(peers[n]), b.i, ok),
                                                   !.i = b.i + 1,
                                                   !.log = Append(b.log, ok)]]
              /\ inbox' = IF ok /\ peer \in Nodes
                          THEN [inbox EXCEPT ![peer] = inbox[peer] \cup {b.msg}]
                          ELSE inbox
        /\ UNCHANGED <<vcvars, peers, offers, heap, glob, file, pool, main, rc, hnd, mined>>
        /\ Observe

\* the call returns
BcastReturn(n) ==
    /\ bc[n].pc = "done"
    /\ bc' = [bc EXCEPT ![n] = IdleBcast]
    /\ UNCHANGED <<vcvars, peers, offers, heap, glob, file, pool, inbox, main, rc, hnd, mined>>
    /\ Observe

PeerLists == UNION {[1..k -> {Env} \cup (Nodes \ OneNode)] : k \in 1..MaxPeers}

InitIsolate ==
    /\ NoValidCall
    /\ \E pl \in PeerLists : \E c \in SealedOffers :
          InitNode(OneNode, [n \in Nodes |-> IF n \in OneNode THEN pl ELSE <<>>], NoFiles, {c})

NextIsolate ==
    \E n \in Nodes :
        \/ Waiting(n) /\ bc[n].pc = "idle" /\ (MainStartup(n) \/ WorkerCall(n) \/ BcastStart(n))
        \/ RcStep(n, "main")
        \/ MainReturn(n)
        \/ WorkerStep(n)
        \/ BcastContact(n)
        \/ BcastReturn(n)

SpecIsolate == InitIsolate /\ [][NextIsolate]_vars

(***************************************************************************)
(* SpecNet: two nodes that list each other as peers, node 1 restarted with  *)
(* a chain file, node 2 new.  Each node runs its operations one at a time;  *)
(* the two nodes run concurrently.  Every thread that can run does, and a   *)
(* sync pass or a waiting connection is started again and again.            *)
(***************************************************************************)
EachOther == [n \in Nodes |-> IF n = 1 THEN <<2>> ELSE <<1>>]

OlderFile ==
    [n \in Nodes |-> IF n = 1 THEN to_dicts(Append(<<create_genesis_block>>,
                                      NextBlock(<<create_genesis_block>>, <<>>, 1)))
                     ELSE <<>>]

InitNet ==
    /\ NoValidCall
    /\ InitNode(Nodes, EachOther, OlderFile, {})

NextNet == \E n \in Nodes : OneAtATime(n)

FairNet ==
    \A n \in Nodes :
        /\ WF_vars(Step(n))
        /\ SF_vars(Waiting(n) /\ WorkerCall(n))
        /\ SF_vars(Quiet(n) /\ HandlerAccept(n))
        /\ SF_vars(Waiting(n) /\ MainStartup(n))

SpecNet == InitNet /\ [][NextNet]_vars /\ FairNet

(***************************************************************************)
(* SpecValid: valid_chain applied to a candidate.                           *)
(***************************************************************************)
Difficulties == {NoDifficulty} \cup (0..(Difficulty + 1))

InitValid ==
    /\ vc_chain \in CandidateChains \cup {<<>>}
    /\ vc_d \in Difficulties
    /\ vc_ret = "none"
    /\ InitNode({}, EnvPeers, NoFiles, {})

\* an entry of a candidate that is not a mapping (a number, say): it is
\* represented by a record whose index is NotRecord
NotRecord == -1
JunkEntry == Block(NotRecord, <<>>, NoHash, GenesisMiner, 0, NoHash)
IsRecord(b) == b.index # NotRecord

\* chain.py 49-54: b.as_dict() and dict(b) are called on every entry, outside
\* any try; on an entry that is not a mapping they raise
NormalizeRaises(chain) == \E i \in 1..Len(chain) : ~IsRecord(chain[i])

CallValidChain ==
    /\ vc_ret = "none"
    /\ vc_ret' = IF NormalizeRaises(vc_chain) THEN "raise"
                  ELSE IF valid_chain(vc_chain, vc_d) THEN "True" ELSE "False"
    /\ UNCHANGED <<vc_chain, vc_d, nodevars>>

NextValid == CallValidChain

SpecValid == InitValid /\ [][NextValid]_vars

(***************************************************************************)
(* SpecMalformed: valid_chain applied to a candidate with a malformed       *)
(* entry: one that is not a record, or a block whose hash is missing or is  *)
(* no hex string.                                                           *)
(***************************************************************************)
MalformedEntry(b) == ~IsRecord(b) \/ Falsy(b.hash) \/ b.hash = BadHex

JunkChains ==
    UNION {{[c EXCEPT ![i] = JunkEntry] : i \in 1..Len(c)} : c \in CandidateChains}

MalformedChains ==
    {c \in CandidateChains \cup JunkChains : \E i \in 1..Len(c) : MalformedEntry(c[i])}

InitMalformed ==
    /\ vc_chain \in MalformedChains
    /\ vc_d \in Difficulties
    /\ vc_ret = "none"
    /\ InitNode({}, EnvPeers, NoFiles, {})

SpecMalformed == InitMalformed /\ [][NextValid]_vars

(***************************************************************************)
(* Properties of valid_chain, under SpecValid.                              *)
(***************************************************************************)
Returned == vc_ret # "none"

\* the hash block b stands for in the validator: the one it declares, or
\* its digest when it declares none
Standing(b) == IF Falsy(b.hash) THEN Digest(b) ELSE b.hash

\* block i of the candidate declares a hash that its other fields do not hash to
Tampered(c, i) == ~Falsy(c[i].hash) /\ c[i].hash # Digest(c[i])

\* C9: valid_chain returns false for every candidate in which some block,
\* genesis included, carries a hash that is not the digest of its other fields.
DetectsTamperEverywhere ==
    (Returned /\ \E i \in 1..Len(vc_chain) : Tampered(vc_chain, i)) => vc_ret = "False"

Linked(c) == \A i \in 2..Len(c) : c[i].prev_hash = c[i - 1].hash

\* C1: in every reachable state, whatever the interleaving of mining, block
\* handling, adoption and the sync worker, every in-memory chain of a node
\* has chain[i].prev_hash = chain[i-1].hash for all i > 0.
ChainLinked == \A n \in Nodes : \A id \in ListIds : Linked(heap[n][id])

\* C2: mine_block appends the block it sealed only if the tip of the chain is
\* still the one whose hash it took before sealing.
AppendsOnSnapshotOnly ==
    [][\A n \in Nodes :
          (main[n].pc = "append" /\ main'[n].pc = "clear")
              => Last(heap[n][glob[n]]).hash = main[n].blk.prev_hash]_vars

\* C3: the chain of the CLI and the sync worker (the list `blockchain` names)
\* and the chain of the connection handlers and the HTTP responder (the list
\* the server was started with) are one and the same list, after any adoption.
OneChainObject == \A n \in Nodes : glob[n] = ServerList

(***************************************************************************)
(* Properties of two nodes and their reconcilers, under SpecNet.            *)
(***************************************************************************)
\* the chain node n mines on, shows and reconciles
ChainOf(n) == heap[n][glob[n]]

MiningOver == \A n \in Nodes : mined[n] = MaxMine /\ main[n].pc \in {"menu", "view", "postmine"}

Forked ==
    /\ valid_chain(ChainOf(1), Difficulty)
    /\ valid_chain(ChainOf(2), Difficulty)
    /\ Len(ChainOf(1)) = Len(ChainOf(2))
    /\ Last(ChainOf(1)).hash # Last(ChainOf(2)).hash

SameChain == ChainOf(1) = ChainOf(2)

\* C4: once the two nodes hold valid chains of equal length with different
\* tail hashes and mining is over, eventually both hold the same chain, and
\* keep it from then on.
EventuallyConverge == (Forked /\ MiningOver) ~> []SameChain

(***************************************************************************)
(* Properties of the resolver (resolve_conflicts, and the adoption branch   *)
(* of handle_client) with the operations run one at a time, under SpecSeq.  *)
(***************************************************************************)
\* the local chain of the call in frame r, as the decision reads it
LocalOf(n, r) == to_dicts(new_chain(n, r))

\* thread t of node n is at the decision on candidate r.remote
Deciding(n, t) == rc[n][t].pc = "decide"

\* what the caller makes of the chain resolve_conflicts returned
Returning(n, t) == rc[n][t].pc = "ret" /\ rc'[n][t].pc = "idle"

KeepsChain(n) ==
    /\ heap'[n][glob'[n]] = heap[n][glob[n]]
    /\ heap'[n][ServerList] = heap[n][ServerList]
    /\ file'[n] = file[n]
    /\ pool'[n] = pool[n]

\* C5: a candidate that passes validation and is strictly longer than the
\* local chain is adopted, and the chain the resolver ends with (the one
\* resolve_conflicts returns and its caller installs, the one handle_client
\* puts into its list) is exactly the candidate.
LongestWins ==
    [][\A n \in Nodes :
          /\ \A t \in Threads :
                /\ (/\ Deciding(n, t)
                    /\ valid_chain(rc[n][t].remote, Difficulty)
                    /\ Len(rc[n][t].remote) > Len(LocalOf(n, rc[n][t])))
                       => rc'[n][t].pc = "write"
                /\ rc[n][t].pc = "write" => rc'[n][t].pc = "load"
                /\ rc[n][t].pc = "load"
                       => /\ rc'[n][t].pc = "ret"
                          /\ rc'[n][t].own
                          /\ to_dicts(rc'[n][t].val) = rc[n][t].remote
                /\ (Returning(n, t) /\ rc[n][t].own)
                       => to_dicts(heap'[n][glob'[n]]) = rc[n][t].remote
          /\ (/\ hnd[n].pc = "decide"
              /\ valid_chain(hnd[n].remote, Difficulty)
              /\ Len(hnd[n].remote) > Len(heap[n][ServerList]))
                 => hnd'[n].pc = "write"
          /\ hnd[n].pc = "write" => hnd'[n].pc = "load"
          /\ hnd[n].pc = "load" => to_dicts(heap'[n][ServerList]) = hnd[n].remote]_vars

\* resolve_conflicts adopted a longer candidate and is about to return it to
\* a caller whose chain is still the shorter one
LongerAdopted ==
    \E n \in Nodes : \E t \in Threads :
        /\ rc[n][t].pc = "ret"
        /\ rc[n][t].own
        /\ to_dicts(rc[n][t].val) = rc[n][t].remote
        /\ Len(rc[n][t].remote) > Len(heap[n][glob[n]])

\* C6: for two valid chains of equal length with different tail hashes,
\* resolving local = A against B adopts exactly when resolving local = B
\* against A does not, so that both resolutions end with the same chain.
TieBreakSymmetric ==
    [][\A n \in Nodes : \A t \in Threads :
          (/\ Deciding(n, t)
           /\ valid_chain(rc[n][t].remote, Difficulty)
           /\ valid_chain(LocalOf(n, rc[n][t]), Difficulty)
           /\ Len(rc[n][t].remote) = Len(LocalOf(n, rc[n][t]))
           /\ Last(rc[n][t].remote).hash # Last(LocalOf(n, rc[n][t])).hash)
              => (rc'[n][t].pc = "write"
                     <=> ~ResolveAdopts(rc[n][t].remote, LocalOf(n, rc[n][t])))]_vars

\* block i of the candidate has a bad link, a wrong hash or too little
\* proof-of-work
BadBlock(c, i) ==
    \/ c[i].prev_hash # Standing(c[i - 1])
    \/ Tampered(c, i)
    \/ ~StartsWithZeros(Standing(c[i]), Difficulty)

FailsValidation(c) == \E i \in 2..Len(c) : BadBlock(c, i)

NoAdoptionOfEqualOrShorter ==
    [][\A n \in Nodes : \A t \in Threads :
          /\ (/\ Deciding(n, t)
              /\ \/ rc[n][t].remote = LocalOf(n, rc[n][t])
                 \/ /\ valid_chain(rc[n][t].remote, Difficulty)
                    /\ Len(rc[n][t].remote) < Len(LocalOf(n, rc[n][t])))
                 => rc'[n][t].pc = "ret" /\ ~rc'[n][t].own /\ KeepsChain(n)
          /\ (/\ Returning(n, t)
              /\ ~rc[n][t].own
              /\ rc[n][t].remote # <<>>
              /\ Len(rc[n][t].remote) <= Len(LocalOf(n, rc[n][t])))
                 => KeepsChain(n) /\ glob'[n] = glob[n]]_vars

\* resolve_conflicts is back, without adopting, from a candidate it was given
\* before: the chain of the peer, which the node has made its local chain
SameCandidateAgain ==
    \E n \in Nodes : \E t \in Threads :
        /\ rc[n][t].pc = "ret"
        /\ ~rc[n][t].own
        /\ rc[n][t].remote \in offers
        /\ Len(rc[n][t].remote) > 1
        /\ rc[n][t].remote = LocalOf(n, rc[n][t])

(***************************************************************************)
(* Properties of valid_chain on malformed input, under SpecMalformed.       *)
(***************************************************************************)
\* C11: for a candidate with a malformed entry (not a block record, a field
\* of the wrong type, a missing hash) valid_chain returns false; it never
\* raises and never returns true.
MalformedIsFalse == Returned => vc_ret = "False"

(***************************************************************************)
(* Properties of the connection handler, operations run one at a time       *)
(* (SpecSeq).                                                               *)
(***************************************************************************)
\* the list the handlers of node n read and change
HandlerChain(n) == heap[n][ServerList]

\* C12: an inbound block is appended, once, exactly when its prev_hash is the
\* hash of the tip, its hash is its digest and has Difficulty leading zeros;
\* the chain is then saved and nothing is sent.  In every other case the
\* block is not appended, and the handler changes the chain only by putting
\* the sender's fetched chain in its place.
InboundBlockAppend ==
    [][\A n \in Nodes :
          LET b == hnd[n].msg.data
              chain == HandlerChain(n)
          IN  /\ (hnd[n].pc = "recv" /\ hnd[n].msg.type = "block" /\ hnd'[n] # hnd[n])
                    => IF /\ b.prev_hash = Last(chain).hash
                          /\ b.hash = Digest(b)
                          /\ StartsWithZeros(b.hash, Difficulty)
                       THEN /\ heap'[n][ServerList] = Append(chain, b)
                            /\ hnd'[n].pc = "save"
                            /\ inbox' = inbox
                       ELSE /\ heap' = heap
                            /\ hnd'[n].pc \in {"fetch", "idle"}
              /\ (hnd[n].pc = "save" /\ hnd'[n] # hnd[n])
                    => /\ file'[n] = to_dicts(chain)
                       /\ heap' = heap
                       /\ inbox' = inbox
              /\ (hnd[n].pc \in {"fetch", "decide", "write"} /\ hnd'[n] # hnd[n])
                    => heap' = heap
              /\ (hnd[n].pc = "load" /\ hnd'[n] # hnd[n])
                    => to_dicts(heap'[n][ServerList]) = hnd[n].remote]_vars

\* the handler has appended the block it received and is about to save
BlockAppended ==
    \E n \in Nodes :
        /\ hnd[n].pc = "save"
        /\ hnd[n].msg.type = "block"
        /\ Len(HandlerChain(n)) > 1
        /\ Last(HandlerChain(n)) = hnd[n].msg.data
        /\ file[n] # to_dicts(HandlerChain(n))


(***************************************************************************)
(* Properties of the handler's other payloads, under SpecSeq.               *)
(***************************************************************************)
\* the handler of node n ends
HandlerEnds(n) == hnd[n].pc # "idle" /\ hnd'[n].pc = "idle"

\* C13: the handler of a 'get_chain' envelope ends by sending, on that
\* connection, the serialised local chain, and leaves the chain and the pool
\* as they were.
GetChainAnswered ==
    [][\A n \in Nodes :
          (hnd[n].msg.type = "get_chain" /\ HandlerEnds(n))
              => /\ hnd[n].pc = "send"
                 /\ hnd[n].chain_list = to_dicts(HandlerChain(n))
                 /\ heap' = heap
                 /\ pool' = pool]_vars

\* C14: when the handler of a 'chain' envelope ends, a payload that was valid
\* and longer than the local chain, or as long with a smaller tail hash, is
\* the local chain and the chain file.
ChainEnvelopeResolved ==
    [][\A n \in Nodes :
          (/\ hnd[n].msg.type = "chain"
           /\ HandlerEnds(n)
           /\ valid_chain(hnd[n].msg.data, Difficulty)
           /\ \/ Len(hnd[n].msg.data) > Len(HandlerChain(n))
              \/ /\ Len(hnd[n].msg.data) = Len(HandlerChain(n))
                 /\ HexInt(Last(hnd[n].msg.data).hash) < HexInt(Last(HandlerChain(n)).hash))
              => /\ to_dicts(heap'[n][ServerList]) = hnd[n].msg.data
                 /\ file'[n] = hnd[n].msg.data]_vars

\* C15: the pending pool never holds two equal transactions.
PoolHasNoDuplicates ==
    \A n \in Nodes : \A i, j \in 1..Len(pool[n]) : pool[n][i] = pool[n][j] => i = j

\* the payloads that are malformed: nothing that parses, no object, an object
\* without a type or without data, a 'tx' whose data is no transaction
Malformed(m) ==
    \/ m.type \in Dropped \cup Raising \cup {"notype"}
    \/ m.type = "tx" /\ m.data \notin TxIds

\* C17: the handler of a malformed payload ends at once, and the chain, the
\* pool and the chain file are as they were.
MalformedLeavesState ==
    [][\A n \in Nodes :
          (hnd[n].pc = "recv" /\ Malformed(hnd[n].msg) /\ hnd'[n] # hnd[n])
              => /\ hnd'[n] = IdleHandler
                 /\ heap' = heap
                 /\ pool' = pool
                 /\ file' = file]_vars

(***************************************************************************)
(* Properties of the threads of one node, under Spec.                       *)
(***************************************************************************)
\* C16: the step of mine_block that clears the pool removes only transactions
\* that are in the mined block: every transaction of the pool before it is in
\* the block or in the pool after it.
ClearsOnlyMined ==
    [][\A n \in Nodes :
          (main[n].pc = "clear" /\ main'[n].pc = "save")
              => \A k \in 1..Len(pool[n]) :
                    \/ \E i \in 1..Len(main[n].blk.transactions) :
                          main[n].blk.transactions[i] = pool[n][k]
                    \/ \E i \in 1..Len(pool'[n]) : pool'[n][i] = pool[n][k]]_vars

\* C18: the chain a GET is answered with is the served list as it stood at
\* one instant of the read.
ServesWholeChain ==
    \A n \in Nodes :
        hnd[n].pc = "send" => \E c \in seen[n] : hnd[n].chain_list = to_dicts(c)

\* C19: when no operation is in progress at a node that has one chain object
\* and a chain file, the file holds the chain.
FileFollowsChain ==
    \A n \in Nodes :
        (Quiet(n) /\ inbox[n] = {} /\ glob[n] = ServerList /\ file[n] # <<>>)
            => file[n] = to_dicts(heap[n][ServerList])


(***************************************************************************)
(* Properties of one pass of resolve_conflicts over two peers, under        *)
(* SpecFold.                                                                *)
(***************************************************************************)
\* the chain the peers before the one at hand have left: the chain adopted
\* last, or the list the pass was called on
LeftByPeers(n, r) == to_dicts(IF r.own THEN r.val ELSE heap[n][r.ref])

\* C20: each peer's candidate is compared against the chain left by the peers
\* before it: it is adopted exactly when it is valid and the single-candidate
\* rule adopts it over that chain, the adopted chain is then the chain left,
\* and the pass returns the chain left by the last peer.
FoldsOverPeers ==
    [][\A n \in Nodes : \A t \in Threads :
          LET r == rc[n][t] IN
          /\ (Deciding(n, t) /\ rc'[n][t] # r)
                => (rc'[n][t].pc = "write"
                       <=> /\ valid_chain(r.remote, Difficulty)
                           /\ ResolveAdopts(LeftByPeers(n, r), to_dicts(r.remote)))
          /\ (r.pc = "load" /\ rc'[n][t] # r)
                => LeftByPeers(n, rc'[n][t]) = to_dicts(r.remote)
          /\ (r.pc \in {"fetch", "decide"} /\ rc'[n][t].pc \in {"fetch", "ret"})
                => LeftByPeers(n, rc'[n][t]) = LeftByPeers(n, r)
          /\ (r.pc = "ret" /\ t = "worker" /\ rc'[n][t].pc = "idle")
                => to_dicts(heap'[n][glob'[n]]) = LeftByPeers(n, r)
          /\ (r.pc = "ret" /\ t = "main" /\ rc'[n][t].pc # "ret")
                => to_dicts(heap'[n][glob'[n]]) = LeftByPeers(n, r)]_vars

\* the second peer's candidate is valid and longer than the chain the pass
\* started with, and no better than the chain adopted from the first peer
SecondPeerMeetsAdopted ==
    \E n \in Nodes : \E t \in Threads :
        /\ Deciding(n, t)
        /\ rc[n][t].i = 2
        /\ rc[n][t].own
        /\ valid_chain(rc[n][t].remote, Difficulty)
        /\ Len(rc[n][t].remote) > Len(heap[n][glob[n]])
        /\ Len(rc[n][t].remote) < Len(rc[n][t].val)


(***************************************************************************)
(* Properties of the chain's length and of its tip.                         *)
(***************************************************************************)
\* C21: no step makes the list the server was started with, which the
\* handlers append to and the sync worker installs into, shorter.
NeverShrinks ==
    [][\A n \in Nodes : Len(heap'[n][ServerList]) >= Len(heap[n][ServerList])]_vars


(***************************************************************************)
(* Properties of a pass over the peers, under SpecIsolate.                  *)
(***************************************************************************)
\* the fetch of thread t of node n fails in this step
FetchFails(n, t) ==
    /\ rc[n][t].pc = "fetch"
    /\ rc'[n][t] # rc[n][t]
    /\ rc'[n][t].remote = <<>>

\* C22: a peer that cannot be reached ends neither a broadcast nor a sync
\* pass: the loop goes on to the next peer of the list, a broadcast that has
\* ended has contacted every peer, and the failed contact leaves the chain,
\* the chain file and the pool as they were.
FailureIsolated ==
    [][\A n \in Nodes :
          /\ (bc[n].pc = "loop" /\ bc'[n] # bc[n])
                => /\ bc'[n].i = bc[n].i + 1
                   /\ bc'[n].pc = (IF bc[n].i < Len(peers[n]) THEN "loop" ELSE "done")
                   /\ heap' = heap /\ file' = file /\ pool' = pool
          /\ (bc[n].pc = "done" /\ bc'[n] # bc[n]) => Len(bc[n].log) = Len(peers[n])
          /\ \A t \in Threads :
                FetchFails(n, t)
                   => /\ rc'[n][t].i = rc[n][t].i + 1
                      /\ rc'[n][t].pc = (IF rc[n][t].i < Len(peers[n]) THEN "fetch" ELSE "ret")
                      /\ heap' = heap /\ file' = file /\ pool' = pool]_vars

\* a broadcast whose first peer could not be reached has gone on and reached
\* a later peer, a node, which holds the envelope
ReachedAfterFailure ==
    \E n \in Nodes : \E p \in Nodes :
        /\ bc[n].pc = "done"
        /\ Len(bc[n].log) > 1
        /\ ~bc[n].log[1]
        /\ \E k \in 2..Len(bc[n].log) : bc[n].log[k] /\ peers[n][k] = p
        /\ bc[n].msg \in inbox[p]


(***************************************************************************)
(* The two adoption decisions side by side, under SpecSeq.                  *)
(***************************************************************************)
\* C23: handle_client decides on its list and the chain it fetched as
\* resolve_conflicts would on them, resolve_conflicts decides on its local
\* chain and its candidate as handle_client would, and after an adoption
\* either holds the candidate as load_chain gives it.
DecisionsAgree ==
    [][\A n \in Nodes :
          /\ hnd[n].pc = "decide"
                => (hnd'[n].pc = "write"
                       <=> /\ valid_chain(hnd[n].remote, Difficulty)
                           /\ ResolveAdopts(to_dicts(HandlerChain(n)), to_dicts(hnd[n].remote)))
          /\ hnd[n].pc = "load"
                => heap'[n][ServerList] = load_chain(to_dicts(hnd[n].remote))
          /\ \A t \in Threads :
                /\ (Deciding(n, t) /\ rc'[n][t] # rc[n][t])
                      => (rc'[n][t].pc = "write"
                             <=> /\ valid_chain(rc[n][t].remote, Difficulty)
                                 /\ HandlerAdopts(LeftByPeers(n, rc[n][t]), rc[n][t].remote))
                /\ (rc[n][t].pc = "load" /\ rc'[n][t] # rc[n][t])
                      => rc'[n][t].val = load_chain(to_dicts(rc[n][t].remote))]_vars

\* the handler is at the decision on a valid chain as long as its own whose
\* tail hash is the smaller one
HandlerAtTie ==
    \E n \in Nodes :
        /\ hnd[n].pc = "decide"
        /\ valid_chain(hnd[n].remote, Difficulty)
        /\ Len(hnd[n].remote) = Len(HandlerChain(n))
        /\ HexInt(Last(hnd[n].remote).hash) < HexInt(Last(HandlerChain(n)).hash)


\* C24: the chain of a node, the list its server was started with and the
\* list the name `blockchain` is bound to, is never empty.
ChainNeverEmpty ==
    \A n \in Nodes : heap[n][ServerList] # <<>> /\ heap[n][glob[n]] # <<>>

\* a pass of resolve_conflicts has been answered with an empty chain, or with
\* none, and ends with the chain it was called on
EmptyCandidateSkipped ==
    \E n \in Nodes : \E t \in Threads :
        /\ rc[n][t].pc = "ret"
        /\ rc[n][t].i > Len(peers[n])
        /\ rc[n][t].remote = <<>>
        /\ ~rc[n][t].own
        /\ heap[n][rc[n][t].ref] # <<>>

====
